---- MODULE Spec2Model ----
(***************************************************************************)
(* A model of the shellcoder crate: the built-in operations (ops.rs), the  *)
(* fixed-buffer engine (static.rs) and the growable-buffer engine          *)
(* (alloc.rs).  Bytes are naturals below 256, a slice is a sequence of     *)
(* bytes, a Result is a record [ok, kind, n].                              *)
(***************************************************************************)
EXTENDS Integers, Sequences, FiniteSets, TLC

VARIABLES
    target,    \* which object this run drives: "static", "alloc", "region", "codec", "io"
    scratch,   \* static: the caller's buffer, whole (the memory behind self.0)
    self0,     \* static: self.0, the slice held, as [start, len] within scratch
    self1,     \* static: self.1
    checked,   \* static: whether the build checks the preconditions of unsafe calls
    got,       \* static: what the last get() returned, while no add succeeded since
    gotAge,    \* static: "fresh" after that get(), "failed" once an add failed since
    stream,    \* alloc: self.stream
    max_len,   \* alloc: self.max_len, [some, v]
    region,    \* region: the slice handed to Op::write_to
    calls,     \* region: the number of write_to calls made on it
    writer,    \* io: self.0, the sink, [data, room, fail, writes]
    call,      \* the last call made, [fn, op]
    ret,       \* what the last add or write_to returned
    emitted,   \* static history: the bytes of the adds that returned Ok, in call order
    asked      \* alloc history: the bytes of every add called, in call order

vars == <<target, scratch, self0, self1, checked, got, gotAge, stream, max_len, region,
          calls, writer, call, ret, emitted, asked>>

\* ------------------------------------------------------------------ bounds

\* Largest capacity of the caller's buffer handed to static::Shellcoder::new.
MaxCap == 4
\* Largest length given to Advance::new and Fill::new.
MaxLen == 3
\* The growable engine is driven while its stream is at most this long.
MaxStream == 4
\* Largest bound given to alloc::Shellcoder::new_with_max_len.
MaxBound == 2
\* Largest region handed directly to Op::write_to.
MaxRegion == 8
\* Number of Op::write_to calls made on one region.
MaxCalls == 2
\* Largest number of bytes a sink given to io::Shellcoder::new accepts.
MaxRoom == 3

\* ------------------------------------------------------------ input values

\* usize::MAX of the smallest target Rust supports (16-bit pointers).
UsizeMax == 65535

\* What the caller's memory holds before the engine writes to it.
InitBytes == {0, 170}

\* What a read past the end of the caller's buffer may find there.
JunkBytes == {0, 204}

\* The fill bytes given to Fill::new.
FillBytes == {65}

\* The buffers given to WriteBuffer::new: prefixes of b"pwnd".
Payloads == {<<>>, <<112, 119>>, <<112, 119, 110, 100>>}

\* An integer of width w bytes is held as its 16-bit limbs, most significant
\* first (a u8 is one limb below 256): 0xdeadbeef_u32 is <<0xdead, 0xbeef>>.
Integers_ == { [w |-> 1, limbs |-> <<1>>],
               [w |-> 2, limbs |-> <<57005>>],
               [w |-> 4, limbs |-> <<57005, 48879>>],
               [w |-> 8, limbs |-> <<57005, 48879, 51966, 47806>>] }

\* The bytes the limbs of the integers given to the codec are made of.
ByteSamples == {0, 1, 127, 128, 173, 222, 255}

\* The limbs of the u16 and u32 given to the codec.
LimbSamples == {h * 256 + l : h, l \in ByteSamples}

\* The limbs of the u64 given to the codec.
WideLimbSamples == {0, 1, 256, 47806, 65535}

\* The integers given to the codec: every u8, and the u16, u32 and u64 made of
\* the limbs above.
CodecIntegers ==
    {[w |-> 1, limbs |-> <<v>>] : v \in 0..255}
      \cup {[w |-> 2, limbs |-> <<a>>] : a \in LimbSamples}
      \cup {[w |-> 4, limbs |-> <<a, b>>] : a, b \in LimbSamples}
      \cup {[w |-> 8, limbs |-> <<a, b, c, d>>] : a, b, c, d \in WideLimbSamples}

\* ------------------------------------------------------------------ results

\* Ok(n); `io` is the kind of the wrapped io::Error, "" when there is none.
Ok(n) == [ok |-> TRUE, kind |-> "Ok", n |-> n, io |-> ""]

\* Error::buffer_too_small: the OutputBufferTooSmall(n) variant.
buffer_too_small(n) ==
    [ok |-> FALSE, kind |-> "OutputBufferTooSmall", n |-> n, io |-> ""]

\* Error::IntegerOverflow.
IntegerOverflow == [ok |-> FALSE, kind |-> "IntegerOverflow", n |-> 0, io |-> ""]

\* Error::io(): Some exactly for the Io variant.
io(error) == error.kind = "Io"

\* ---------------------------------------------------------------- operations

Advance(n) == [op |-> "Advance", len |-> n]

Fill(n, chr) == [op |-> "Fill", len |-> n, chr |-> chr]

new_be(i) == [op |-> "WriteInteger", endian |-> "BigEndian", int |-> i]

new_le(i) == [op |-> "WriteInteger", endian |-> "LittleEndian", int |-> i]

WriteBuffer(buffer) == [op |-> "WriteBuffer", buf |-> buffer]

\* The operations the callers of the model choose from.
Ops == {Advance(n) : n \in 0..MaxLen}
         \cup {Fill(n, c) : n \in 0..MaxLen, c \in FillBytes}
         \cup {new_be(i) : i \in Integers_}
         \cup {new_le(i) : i \in Integers_}
         \cup {WriteBuffer(b) : b \in Payloads}

\* A bug: a slice of exactly n bytes is refused.
InRange_Strict(n, out) == n < Len(out)

\* slice::get_mut(..n): the first n bytes, None (here FALSE) when n > len.
InRange(n, out) == n <= Len(out)

\* The slice `out` with its first Len(bytes) bytes overwritten by `bytes`
\* (slice::fill and ptr::copy_from into out[..n]).
Overwrite(out, bytes) ==
    [i \in 1..Len(out) |-> IF i <= Len(bytes) THEN bytes[i] ELSE out[i]]

Repeat(n, chr) == [i \in 1..n |-> chr]

\* EncodableInteger::n: BITS >> 3.
n_(i) == (i.w * 8) \div 8

\* A bug: the bytes are taken in the order of a little-endian host (to_ne_bytes).
to_be_bytes_Native(i) ==
    [k \in 1..i.w |->
        LET j == k - 1
            limb == i.limbs[Len(i.limbs) - (j \div 2)]
        IN  (limb \div (IF j % 2 = 1 THEN 256 ELSE 1)) % 256]

\* to_be_bytes: byte k (1-based) is (v >> 8*(w-k)) mod 256, taken from the limbs.
to_be_bytes(i) ==
    [k \in 1..i.w |->
        LET j == i.w - k
            limb == i.limbs[Len(i.limbs) - (j \div 2)]
        IN  (limb \div (IF j % 2 = 1 THEN 256 ELSE 1)) % 256]

\* A bug: the little-endian bytes come out in big-endian order.
to_le_bytes_Unswapped(i) ==
    [k \in 1..i.w |->
        LET j == i.w - k
            limb == i.limbs[Len(i.limbs) - (j \div 2)]
        IN  (limb \div (IF j % 2 = 1 THEN 256 ELSE 1)) % 256]

\* to_le_bytes: byte k (1-based) is (v >> 8*(k-1)) mod 256.
to_le_bytes(i) ==
    [k \in 1..i.w |->
        LET j == k - 1
            limb == i.limbs[Len(i.limbs) - (j \div 2)]
        IN  (limb \div (IF j % 2 = 1 THEN 256 ELSE 1)) % 256]

\* ------------------------------------------- direct-region realization

\* A bug: what fits of the fill is written before the error is returned.
Fill_write_to_Partial(self, out) ==
    IF InRange(self.len, out)
    THEN [ret |-> Ok(self.len), out |-> Overwrite(out, Repeat(self.len, self.chr))]
    ELSE [ret |-> buffer_too_small(self.len), out |-> Repeat(Len(out), self.chr)]

\* A bug: the range is not checked; what fits is filled and self.0 is reported.
Fill_write_to_Unchecked(self, out) ==
    [ret |-> Ok(self.len),
     out |-> IF InRange(self.len, out)
             THEN Overwrite(out, Repeat(self.len, self.chr))
             ELSE Repeat(Len(out), self.chr)]

\* Fill::write_to: get_mut(..self.0), else buffer_too_small(self.0); then fill.
Fill_write_to(self, out) ==
    IF InRange(self.len, out)
    THEN [ret |-> Ok(self.len), out |-> Overwrite(out, Repeat(self.len, self.chr))]
    ELSE [ret |-> buffer_too_small(self.len), out |-> out]

\* Advance::write_to: Fill::new(self.0, 0).write_to(out).
Advance_write_to(self, out) == Fill_write_to(Fill(self.len, 0), out)

\* A bug: the error reports the size of the region, not the size required.
WriteBuffer_write_to_ReportsRegion(self, out) ==
    IF InRange(Len(self.buf), out)
    THEN [ret |-> Ok(Len(self.buf)), out |-> Overwrite(out, self.buf)]
    ELSE [ret |-> buffer_too_small(Len(out)), out |-> out]

\* EncodableInteger::write_be: get_mut(..n), else buffer_too_small(n); then copy.
write_be(i, out) ==
    IF InRange(n_(i), out)
    THEN [ret |-> Ok(0), out |-> Overwrite(out, to_be_bytes(i))]
    ELSE [ret |-> buffer_too_small(n_(i)), out |-> out]

\* EncodableInteger::write_le.
write_le(i, out) ==
    IF InRange(n_(i), out)
    THEN [ret |-> Ok(0), out |-> Overwrite(out, to_le_bytes(i))]
    ELSE [ret |-> buffer_too_small(n_(i)), out |-> out]

\* WriteInteger::write_to: write_be or write_le, then .map(|()| n.n()).
WriteInteger_write_to(self, out) ==
    LET r == IF self.endian = "BigEndian" THEN write_be(self.int, out)
                                          ELSE write_le(self.int, out)
    IN  [ret |-> IF r.ret.ok THEN Ok(n_(self.int)) ELSE r.ret, out |-> r.out]

\* WriteBuffer::write_to: get_mut(..len), else buffer_too_small(len); then copy.
WriteBuffer_write_to(self, out) ==
    IF InRange(Len(self.buf), out)
    THEN [ret |-> Ok(Len(self.buf)), out |-> Overwrite(out, self.buf)]
    ELSE [ret |-> buffer_too_small(Len(self.buf)), out |-> out]

\* Op::write_to, dispatched on the operation's type.
write_to(op, out) ==
    CASE op.op = "Advance" -> Advance_write_to(op, out)
      [] op.op = "Fill" -> Fill_write_to(op, out)
      [] op.op = "WriteInteger" -> WriteInteger_write_to(op, out)
      [] op.op = "WriteBuffer" -> WriteBuffer_write_to(op, out)

\* ------------------------------------------------- stream realization

\* Error::Io, from io::Error (impl From<io::Error> for Error); `io` is its kind.
Io(errorKind) == [ok |-> FALSE, kind |-> "Io", n |-> 0, io |-> errorKind]

\* A sink (dyn io::Write): the bytes it has accepted, the number of bytes it
\* still accepts (-1: any number, as a Vec<u8> does), the kind of the error it
\* rejects a write with, and the number of write_all calls it has received.
Vec(bytes) == [data |-> bytes, room |-> -1, fail |-> "", writes |-> 0]

\* io::Write::write_all: the sink takes what it accepts of buf; when that is not
\* all of buf the call fails with the sink's error (WriteZero for a sink whose
\* write returns Ok(0), as a full &mut [u8] does).  A Vec<u8> never fails.
write_all(sink, buf) ==
    LET taken == IF sink.room < 0 \/ Len(buf) <= sink.room THEN Len(buf) ELSE sink.room
        after == [sink EXCEPT !.data = @ \o SubSeq(buf, 1, taken),
                              !.room = IF @ < 0 THEN @ ELSE @ - taken,
                              !.writes = @ + 1]
    IN  [ret |-> IF taken = Len(buf) THEN Ok(0) ELSE Io(sink.fail), stream |-> after]

\* A bug: a rejected write is ignored and the loop goes on.
RECURSIVE FillLoop_KeepsGoing(_, _, _)
FillLoop_KeepsGoing(i, self, sink) ==
    IF i >= self.len
    THEN [ret |-> Ok(self.len), stream |-> sink]
    ELSE FillLoop_KeepsGoing(i + 1, self, write_all(sink, <<self.chr>>).stream)

\* The loop of Fill::write_to_io, i writes done: write_all of the one fill byte,
\* returning at the first error.
RECURSIVE FillLoop(_, _, _)
FillLoop(i, self, sink) ==
    IF i >= self.len
    THEN [ret |-> Ok(self.len), stream |-> sink]
    ELSE LET r == write_all(sink, <<self.chr>>)
         IN  IF r.ret.ok THEN FillLoop(i + 1, self, r.stream) ELSE r

\* Fill::write_to_io.
Fill_write_to_io(self, sink) == FillLoop(0, self, sink)

\* Advance::write_to_io: Fill::new(self.0, 0).write_to_io(stream).
Advance_write_to_io(self, sink) == Fill_write_to_io(Fill(self.len, 0), sink)

\* EncodableInteger::write_be_io.
write_be_io(i, sink) == write_all(sink, to_be_bytes(i))

\* EncodableInteger::write_le_io.
write_le_io(i, sink) == write_all(sink, to_le_bytes(i))

\* WriteInteger::write_to_io.
WriteInteger_write_to_io(self, sink) ==
    LET r == IF self.endian = "BigEndian" THEN write_be_io(self.int, sink)
                                          ELSE write_le_io(self.int, sink)
    IN  [ret |-> IF r.ret.ok THEN Ok(n_(self.int)) ELSE r.ret, stream |-> r.stream]

\* WriteBuffer::write_to_io.
WriteBuffer_write_to_io(self, sink) ==
    LET r == write_all(sink, self.buf)
    IN  [ret |-> IF r.ret.ok THEN Ok(Len(self.buf)) ELSE r.ret, stream |-> r.stream]

\* Op::write_to_io, dispatched on the operation's type.
write_to_io(op, sink) ==
    CASE op.op = "Advance" -> Advance_write_to_io(op, sink)
      [] op.op = "Fill" -> Fill_write_to_io(op, sink)
      [] op.op = "WriteInteger" -> WriteInteger_write_to_io(op, sink)
      [] op.op = "WriteBuffer" -> WriteBuffer_write_to_io(op, sink)

\* ------------------------------------------------ static::Shellcoder

\* The bytes of the slice [start, len] of the memory mem.
Slice(mem, s) == SubSeq(mem, s.start + 1, s.start + s.len)

\* The memory mem after the slice [start, len] of it was left holding `bytes`.
Store(mem, s, bytes) ==
    [i \in 1..Len(mem) |->
        IF i > s.start /\ i <= s.start + s.len THEN bytes[i - s.start] ELSE mem[i]]

\* static::Shellcoder::new.
Static_new(buffer) == [f0 |-> [start |-> 0, len |-> Len(buffer)], f1 |-> 0]

\* A bug: the slice held is not advanced past the bytes written.
Static_add_KeepSlice(mem, self, op) ==
    LET w == write_to(op, Slice(mem, self.f0))
    IN  IF ~w.ret.ok
        THEN [ret |-> w.ret, mem |-> Store(mem, self.f0, w.out), self |-> self]
        ELSE [ret |-> Ok(0), mem |-> Store(mem, self.f0, w.out),
              self |-> [f0 |-> self.f0, f1 |-> self.f1 + w.ret.n]]

\* static::Shellcoder::add on self = [f0, f1] over the memory mem:
\* write_to(&mut self.0)?, self.0 = self.0.get_mut(n..) or buffer_too_small(n),
\* self.1 = self.1.checked_add(n) or IntegerOverflow.
Static_add(mem, self, op) ==
    LET w == write_to(op, Slice(mem, self.f0))
        mem1 == Store(mem, self.f0, w.out)
        n == w.ret.n
        rest == [start |-> self.f0.start + n, len |-> self.f0.len - n]
    IN  IF ~w.ret.ok
        THEN [ret |-> w.ret, mem |-> mem1, self |-> self]
        ELSE IF n > self.f0.len
        THEN [ret |-> buffer_too_small(n), mem |-> mem1, self |-> self]
        ELSE IF self.f1 + n > UsizeMax
        THEN [ret |-> IntegerOverflow, mem |-> mem1,
              self |-> [f0 |-> rest, f1 |-> self.f1]]
        ELSE [ret |-> Ok(0), mem |-> mem1,
              self |-> [f0 |-> rest, f1 |-> self.f1 + n]]

NoGet == [kind |-> "none", bytes |-> <<>>]

\* static::Shellcoder::get: self.0.get_unchecked(..self.1).  Inside self.0 it is
\* the first self.1 bytes of self.0.  With self.1 > self.0.len() the call is
\* undefined behaviour: a build that checks the precondition (debug assertions)
\* panics; any other reads self.1 bytes from the start of self.0, past its end,
\* and past the end of the caller's buffer whatever lies there (taken as a run of
\* one of JunkBytes).  The set of the possible results.
Static_get(mem, self, dbg) ==
    IF self.f1 <= self.f0.len
    THEN {[kind |-> "bytes", bytes |-> SubSeq(mem, self.f0.start + 1, self.f0.start + self.f1)]}
    ELSE IF dbg
    THEN {[kind |-> "abort", bytes |-> <<>>]}
    ELSE LET beyond == {i \in 1..self.f1 : self.f0.start + i > Len(mem)}
         IN  {[kind |-> "bytes",
               bytes |-> [i \in 1..self.f1 |->
                            IF i \in beyond THEN j ELSE mem[self.f0.start + i]]]
                : j \in JunkBytes}

\* ------------------------------------------------- alloc::Shellcoder

None == [some |-> FALSE, v |-> 0]

Some(v) == [some |-> TRUE, v |-> v]

\* alloc::Shellcoder::new.
Alloc_new == [stream |-> <<>>, max_len |-> None]

\* alloc::Shellcoder::new_with_max_len.
new_with_max_len(m) == [stream |-> <<>>, max_len |-> Some(m)]

\* alloc::Shellcoder::as_bytes.
as_bytes(self) == self.stream

\* A bug: the bound check also refuses a stream of exactly max_len bytes.
Alloc_add_OffByOne(self, op) ==
    LET r == write_to_io(op, Vec(self.stream))
        self1_ == [stream |-> r.stream.data, max_len |-> self.max_len]
    IN  IF ~r.ret.ok
        THEN [ret |-> r.ret, self |-> self1_]
        ELSE IF self.max_len.some /\ self.max_len.v <= Len(self1_.stream)
        THEN [ret |-> buffer_too_small(Len(self1_.stream)), self |-> self1_]
        ELSE [ret |-> Ok(0), self |-> self1_]

\* A bug: the bound is not checked after an operation that wrote no byte.
Alloc_add_SkipsEmpty(self, op) ==
    LET r == write_to_io(op, Vec(self.stream))
        self1_ == [stream |-> r.stream.data, max_len |-> self.max_len]
    IN  IF ~r.ret.ok
        THEN [ret |-> r.ret, self |-> self1_]
        ELSE IF r.ret.n > 0 /\ self.max_len.some /\ self.max_len.v < Len(self1_.stream)
        THEN [ret |-> buffer_too_small(Len(self1_.stream)), self |-> self1_]
        ELSE [ret |-> Ok(0), self |-> self1_]

\* alloc::Shellcoder::add: write_to_io(&mut self.stream), then the bound check
\* max_len < self.stream.len().
Alloc_add(self, op) ==
    LET r == write_to_io(op, Vec(self.stream))
        self1_ == [stream |-> r.stream.data, max_len |-> self.max_len]
    IN  IF ~r.ret.ok
        THEN [ret |-> r.ret, self |-> self1_]
        ELSE IF self.max_len.some /\ self.max_len.v < Len(self1_.stream)
        THEN [ret |-> buffer_too_small(Len(self1_.stream)), self |-> self1_]
        ELSE [ret |-> Ok(0), self |-> self1_]

\* ---------------------------------------------------- io::Shellcoder

\* io::Shellcoder::new.
Io_new(sink) == sink

\* io::Shellcoder::add: write_to_io(self.0).map_err(Error::from).map(|_| self).
Io_add(self, op) ==
    LET r == write_to_io(op, self)
    IN  [ret |-> IF r.ret.ok THEN Ok(0) ELSE r.ret, self |-> r.stream]

\* ------------------------------------------------------ history values

\* The two bytes of a 16-bit limb, high byte first.
LimbBytes(l) == <<l \div 256, l % 256>>

RECURSIVE Flatten(_)
Flatten(ss) == IF ss = <<>> THEN <<>> ELSE Head(ss) \o Flatten(Tail(ss))

Reverse(s) == [i \in 1..Len(s) |-> s[Len(s) + 1 - i]]

\* The canonical bytes of an operation: Advance(n) is n zero bytes, Fill(n, b) is
\* n copies of b, WriteInteger is its w bytes in the chosen order, WriteBuffer
\* is the source bytes.
Canonical(op) ==
    CASE op.op = "Advance" -> [i \in 1..op.len |-> 0]
      [] op.op = "Fill" -> [i \in 1..op.len |-> op.chr]
      [] op.op = "WriteBuffer" -> op.buf
      [] op.op = "WriteInteger" ->
            LET all == Flatten([k \in 1..Len(op.int.limbs) |-> LimbBytes(op.int.limbs[k])])
                be == SubSeq(all, Len(all) - op.int.w + 1, Len(all))
            IN  IF op.endian = "BigEndian" THEN be ELSE Reverse(be)

\* The operation's byte count k.
Count(op) == Len(Canonical(op))

NoCall == [fn |-> "new", op |-> Advance(0)]

\* ------------------------------------------------------------- actions

InitStatic ==
    /\ target = "static"
    /\ \E c \in 0..MaxCap, z \in InitBytes : scratch = Repeat(c, z)
    /\ self0 = Static_new(scratch).f0
    /\ self1 = Static_new(scratch).f1
    /\ checked \in BOOLEAN
    /\ got = NoGet /\ gotAge = "none"
    /\ stream = <<>> /\ max_len = None
    /\ region = <<>> /\ calls = 0
    /\ writer = Vec(<<>>)
    /\ call = NoCall /\ ret = Ok(0) /\ emitted = <<>> /\ asked = <<>>

InitAlloc ==
    /\ target = "alloc"
    /\ \E e \in {Alloc_new} \cup {new_with_max_len(m) : m \in 0..MaxBound} :
          stream = e.stream /\ max_len = e.max_len
    /\ scratch = <<>> /\ self0 = Static_new(<<>>).f0 /\ self1 = 0
    /\ checked = FALSE
    /\ got = NoGet /\ gotAge = "none"
    /\ region = <<>> /\ calls = 0
    /\ writer = Vec(<<>>)
    /\ call = NoCall /\ ret = Ok(0) /\ emitted = <<>> /\ asked = <<>>

InitRegion ==
    /\ target = "region"
    /\ \E m \in 0..MaxRegion, z \in InitBytes : region = Repeat(m, z)
    /\ calls = 0
    /\ scratch = <<>> /\ self0 = Static_new(<<>>).f0 /\ self1 = 0
    /\ checked = FALSE
    /\ got = NoGet /\ gotAge = "none"
    /\ stream = <<>> /\ max_len = None
    /\ writer = Vec(<<>>)
    /\ call = NoCall /\ ret = Ok(0) /\ emitted = <<>> /\ asked = <<>>

\* A caller calls add(op) on the fixed-buffer engine.
StaticAdd ==
    /\ target = "static" /\ got.kind # "abort"
    /\ \E op \in Ops :
          LET r == Static_add(scratch, [f0 |-> self0, f1 |-> self1], op)
          IN  /\ scratch' = r.mem
              /\ self0' = r.self.f0
              /\ self1' = r.self.f1
              /\ ret' = r.ret
              /\ call' = [fn |-> "add", op |-> op]
              /\ emitted' = IF r.ret.ok THEN emitted \o Canonical(op) ELSE emitted
              /\ got' = IF r.ret.ok THEN NoGet ELSE got
              /\ gotAge' = IF r.ret.ok \/ got.kind = "none" THEN "none" ELSE "failed"
    /\ UNCHANGED <<writer, target, checked, stream, max_len, region, calls, asked>>

\* A caller calls get() on the fixed-buffer engine.
StaticGet ==
    /\ target = "static" /\ got.kind # "abort"
    /\ got' \in Static_get(scratch, [f0 |-> self0, f1 |-> self1], checked)
    /\ gotAge' = "fresh"
    /\ call' = [fn |-> "get", op |-> Advance(0)]
    /\ UNCHANGED <<writer, target, scratch, self0, self1, checked, stream, max_len, region, calls,
                   ret, emitted, asked>>

\* A caller calls add(op) on the growable engine.
AllocAdd ==
    /\ target = "alloc" /\ Len(stream) <= MaxStream
    /\ \E op \in Ops :
          LET r == Alloc_add([stream |-> stream, max_len |-> max_len], op)
          IN  /\ stream' = r.self.stream
              /\ max_len' = r.self.max_len
              /\ ret' = r.ret
              /\ call' = [fn |-> "add", op |-> op]
              /\ asked' = asked \o Canonical(op)
    /\ UNCHANGED <<writer, target, scratch, self0, self1, checked, got, gotAge, region, calls,
                   emitted>>

\* A caller calls op.write_to(&mut out) on a region.
RegionWrite ==
    /\ target = "region" /\ calls < MaxCalls
    /\ \E op \in Ops :
          LET r == write_to(op, region)
          IN  /\ region' = r.out
              /\ ret' = r.ret
              /\ call' = [fn |-> "write_to", op |-> op]
    /\ calls' = calls + 1
    /\ UNCHANGED <<writer, target, scratch, self0, self1, checked, got, gotAge, stream, max_len,
                   emitted, asked>>

\* The codec: a WriteInteger, a region one byte longer than it, an empty Vec.
InitCodec ==
    /\ target = "codec"
    /\ \E i \in CodecIntegers, z \in InitBytes :
          /\ \E o \in {new_be(i), new_le(i)} : call = [fn |-> "new", op |-> o]
          /\ region = Repeat(i.w + 1, z)
    /\ calls = 0
    /\ stream = <<>> /\ max_len = None
    /\ scratch = <<>> /\ self0 = Static_new(<<>>).f0 /\ self1 = 0
    /\ checked = FALSE
    /\ got = NoGet /\ gotAge = "none"
    /\ writer = Vec(<<>>)
    /\ ret = Ok(0) /\ emitted = <<>> /\ asked = <<>>

\* The WriteInteger is written to the region: op.write_to(&mut out).
CodecWriteTo ==
    /\ target = "codec" /\ calls = 0
    /\ LET r == write_to(call.op, region)
       IN  region' = r.out /\ ret' = r.ret
    /\ calls' = 1
    /\ call' = [fn |-> "write_to", op |-> call.op]
    /\ UNCHANGED <<writer, target, scratch, self0, self1, checked, got, gotAge, stream, max_len,
                   emitted, asked>>

\* The WriteInteger is written to the Vec: op.write_to_io(&mut stream).
CodecWriteToIo ==
    /\ target = "codec" /\ stream = <<>>
    /\ LET r == write_to_io(call.op, Vec(stream))
       IN  stream' = r.stream.data /\ ret' = r.ret
    /\ call' = [fn |-> "write_to_io", op |-> call.op]
    /\ UNCHANGED <<writer, target, scratch, self0, self1, checked, got, gotAge, region, calls,
                   max_len, emitted, asked>>

\* io::Shellcoder::new over a sink that accepts at most MaxRoom bytes.
InitIo ==
    /\ target = "io"
    /\ \E r \in 0..MaxRoom, f \in {"WriteZero", "BrokenPipe"} :
          writer = Io_new([data |-> <<>>, room |-> r, fail |-> f, writes |-> 0])
    /\ scratch = <<>> /\ self0 = Static_new(<<>>).f0 /\ self1 = 0
    /\ checked = FALSE
    /\ got = NoGet /\ gotAge = "none"
    /\ stream = <<>> /\ max_len = None
    /\ region = <<>> /\ calls = 0
    /\ call = NoCall /\ ret = Ok(0) /\ emitted = <<>> /\ asked = <<>>

\* A caller calls add(op) on the streaming engine; the sink counts the write_all
\* calls of this add.
IoAdd ==
    /\ target = "io"
    /\ \E op \in Ops :
          LET r == Io_add([writer EXCEPT !.writes = 0], op)
          IN  /\ writer' = r.self
              /\ ret' = r.ret
              /\ call' = [fn |-> "add", op |-> op]
    /\ UNCHANGED <<target, scratch, self0, self1, checked, got, gotAge, stream, max_len,
                   region, calls, emitted, asked>>

Init == InitStatic \/ InitAlloc \/ InitRegion \/ InitCodec \/ InitIo

NextStatic == StaticAdd \/ StaticGet

NextAlloc == AllocAdd

NextRegion == RegionWrite

NextCodec == CodecWriteTo \/ CodecWriteToIo

NextIo == IoAdd

Next == NextStatic \/ NextAlloc \/ NextRegion \/ NextCodec \/ NextIo

Spec == Init /\ [][Next]_vars

SpecStatic == InitStatic /\ [][NextStatic]_vars

SpecAlloc == InitAlloc /\ [][NextAlloc]_vars

SpecRegion == InitRegion /\ [][NextRegion]_vars

SpecCodec == InitCodec /\ [][NextCodec]_vars

SpecIo == InitIo /\ [][NextIo]_vars

\* ------------------------------------------------- the fixed-buffer engine

\* C1: after any sequence of adds, get() returns exactly the first `committed`
\* bytes of the caller's buffer, the concatenation in call order of the bytes
\* written by the adds that succeeded.
C1_GetIsCommittedPrefix ==
    (target = "static" /\ call.fn = "get")
        => /\ got.kind = "bytes"
           /\ got.bytes = SubSeq(scratch, 1, Len(emitted))
           /\ got.bytes = emitted

\* C2: in every state reached by adds, successful or failed, over a buffer of
\* capacity C, the committed counter plus the length of the remaining writable
\* region is C.
C2_CommittedPlusRemaining ==
    target = "static" => self1 + self0.len = Len(scratch)

\* C2's case: an add failed after another had committed bytes, with room left.
C2_Witness ==
    /\ target = "static" /\ call.fn = "add" /\ ~ret.ok
    /\ self1 > 0 /\ self0.len > 0

\* C3: an add that returns an error leaves the committed counter and the
\* remaining region (start and length) as they were, and a get() after it
\* returns the bytes the get() before it returned.
C3_FailedAddChangesNothing ==
    [][ /\ (call'.fn = "add" /\ ~ret'.ok) => (self0' = self0 /\ self1' = self1)
        /\ (call'.fn = "get" /\ gotAge = "failed") => got' = got ]_vars

C5_AllocConcatenates ==
    (target = "alloc" /\ (~max_len.some \/ Len(asked) <= max_len.v))
        => /\ ret.ok
           /\ as_bytes([stream |-> stream, max_len |-> max_len]) = asked

\* C5's case: a little-endian integer was added after other bytes and the total
\* is exactly the bound.
C5_Witness ==
    /\ target = "alloc" /\ call.fn = "add" /\ ret.ok
    /\ call.op.op = "WriteInteger" /\ call.op.endian = "LittleEndian"
    /\ call.op.int.w = 2
    /\ max_len.some /\ Len(stream) = max_len.v /\ Len(asked) = max_len.v

\* C6: with a bound M, add(op) appends the operation's k bytes and then returns
\* OutputBufferTooSmall(L), L the new length, exactly when L > M; the bytes
\* stay appended when the error is returned.
C6_BoundCheckedAfterAppend ==
    [][ (target = "alloc" /\ call'.fn = "add" /\ max_len.some) =>
            /\ stream' = stream \o Canonical(call'.op)
            /\ ret' = IF Len(stream') > max_len.v
                         THEN buffer_too_small(Len(stream'))
                         ELSE Ok(0) ]_vars

\* C6's case: an add of k > 0 bytes took the stream from within the bound to
\* beyond it, was refused with the new length, and its bytes are in the stream.
C6_Witness ==
    /\ target = "alloc" /\ call.fn = "add" /\ max_len.some
    /\ Count(call.op) > 0
    /\ Len(stream) - Count(call.op) <= max_len.v
    /\ Len(stream) > max_len.v
    /\ ret = buffer_too_small(Len(stream))
    /\ SubSeq(stream, Len(stream) - Count(call.op) + 1, Len(stream)) = Canonical(call.op)

\* C7: an engine made by new_with_max_len(M) never holds more than M bytes.
C7_NeverLongerThanBound ==
    (target = "alloc" /\ max_len.some)
        => Len(as_bytes([stream |-> stream, max_len |-> max_len])) <= max_len.v

\* ------------------------------------------ the direct-region realization

C9_FillFailsWithWriteZero ==
    (/\ target = "region" /\ call.fn = "write_to"
     /\ call.op.op \in {"Advance", "Fill"}
     /\ Len(region) < call.op.len)
        => /\ io(ret) /\ ret.io = "WriteZero"
           /\ region = Repeat(Len(region),
                               IF call.op.op = "Fill" THEN call.op.chr ELSE 0)

FromBeBytes(bytes) ==
    IF Len(bytes) = 1
    THEN <<bytes[1]>>
    ELSE [k \in 1..(Len(bytes) \div 2) |-> bytes[2 * k - 1] * 256 + bytes[2 * k]]

\* Whether the integer is below 2^31, so that its value is a number here.
Small(i) == i.w <= 2 \/ (i.w = 4 /\ i.limbs[1] < 32768)

\* The value of a Small integer.
ValueOf(i) == IF i.w = 4 THEN i.limbs[1] * 65536 + i.limbs[2] ELSE i.limbs[1]

\* 2^(8*n), for n <= 3.
Shift(n) == CASE n = 0 -> 1 [] n = 1 -> 256 [] n = 2 -> 65536 [] n = 3 -> 16777216

\* What C11 says of w bytes written for the operation op: each is a byte, read
\* in the operation's order they are the integer again, and byte i (from 0) is
\* (v >> 8*(w-1-i)) mod 256 big-endian, (v >> 8*i) mod 256 little-endian.
Encodes(bytes, op) ==
    LET i == op.int
        be == IF op.endian = "BigEndian" THEN bytes ELSE Reverse(bytes)
    IN  /\ Len(bytes) = i.w
        /\ \A k \in 1..i.w : bytes[k] \in 0..255
        /\ FromBeBytes(be) = i.limbs
        /\ Small(i) =>
              \A k \in 0..(i.w - 1) :
                 bytes[k + 1] =
                    (ValueOf(i) \div Shift(IF op.endian = "BigEndian" THEN i.w - 1 - k ELSE k)) % 256

\* C11: WriteInteger of a w-byte integer writes exactly w bytes and reports w,
\* to a region as to a stream, and the bytes are the integer's in the chosen
\* order.
C11_IntegerCodec ==
    target = "codec" =>
        /\ call.fn # "new" => ret = Ok(call.op.int.w)
        /\ calls = 1 =>
              /\ Encodes(SubSeq(region, 1, call.op.int.w), call.op)
              /\ Len(region) = call.op.int.w + 1
              /\ region[Len(region)] \in InitBytes
        /\ stream # <<>> => Encodes(stream, call.op)
        /\ (calls = 1 /\ stream # <<>>) => SubSeq(region, 1, call.op.int.w) = stream

\* C11's case: 0xdeadadde_u32, above 2^31, was written little-endian both to a
\* region and to a stream, which hold [0xde, 0xad, 0xad, 0xde].
C11_Witness ==
    /\ target = "codec" /\ calls = 1
    /\ call.op = new_le([w |-> 4, limbs |-> <<57005, 44510>>])
    /\ stream = <<222, 173, 173, 222>>
    /\ SubSeq(region, 1, 4) = stream

\* --------------------------------------- the fixed-buffer engine, its slices

\* C12: no add, successful or failed, changes a byte of the caller's buffer at a
\* position below the committed counter's value before the call.
C12_CommittedPrefixSealed ==
    [][ (target = "static" /\ call'.fn = "add") =>
            /\ Len(scratch') = Len(scratch)
            /\ \A i \in 1..self1 : scratch'[i] = scratch[i] ]_vars

\* C12's case: an add wrote bytes behind bytes committed by an earlier add, all
\* of which differ from the first byte it wrote.
C12_Witness ==
    /\ target = "static" /\ call.fn = "add" /\ ret.ok
    /\ Count(call.op) > 0 /\ self1 > Count(call.op)
    /\ \A i \in 1..(self1 - Count(call.op)) :
          scratch[i] # scratch[self1 - Count(call.op) + 1]

\* C13: the committed counter never exceeds the length of the slice the engine
\* holds, so get() stays inside that slice and inside the caller's buffer.
C13_GetStaysInside ==
    target = "static" =>
        /\ self1 <= self0.len
        /\ self0.start + self1 <= Len(scratch)
        /\ call.fn = "get" => got.kind = "bytes"

\* C15: add never returns IntegerOverflow nor the OutputBufferTooSmall of the
\* re-slicing step: a realization that succeeds reports at most the remaining
\* length, so committed + k stays within the capacity (itself within the
\* counter's range) and the add succeeds; an add that fails returns the
\* realization's own error and has changed neither the buffer nor the engine.
C15_ChecksAfterRealizationUnreachable ==
    [][ (target = "static" /\ call'.fn = "add") =>
            LET w == write_to(call'.op, Slice(scratch, self0))
            IN  /\ ret'.kind # "IntegerOverflow"
                /\ w.ret.ok =>
                      /\ w.ret.n <= self0.len
                      /\ self1 + w.ret.n <= Len(scratch)
                      /\ Len(scratch) <= UsizeMax
                      /\ ret'.ok
                /\ ~ret'.ok =>
                      /\ ~w.ret.ok /\ ret' = w.ret
                      /\ scratch' = scratch /\ self0' = self0 /\ self1' = self1 ]_vars

\* C15's case: bytes are committed, room remains, and an add of more than the
\* room failed with the operation's own count.
C15_Witness ==
    /\ target = "static" /\ call.fn = "add"
    /\ ret = buffer_too_small(Count(call.op))
    /\ self1 > 0 /\ self0.len > 0 /\ Count(call.op) > self0.len

\* ------------------------------------------------- the growable engine

\* C16: after an add returned an error, the next add appends its bytes and
\* returns OutputBufferTooSmall with the length the sequence then has, whatever
\* the operation, one of zero bytes included.
C16_StaysTooSmall ==
    [][ (target = "alloc" /\ call.fn = "add" /\ ~ret.ok /\ call'.fn = "add") =>
            /\ stream' = stream \o Canonical(call'.op)
            /\ ret' = buffer_too_small(Len(stream'))
            /\ max_len.some /\ Len(stream') > max_len.v ]_vars

\* C16's case: an add of a zero-byte operation on a sequence already over its
\* bound returned OutputBufferTooSmall with the unchanged length.
C16_Witness ==
    /\ target = "alloc" /\ call.fn = "add" /\ Count(call.op) = 0
    /\ max_len.some /\ Len(stream) > max_len.v
    /\ ret = buffer_too_small(Len(stream))

\* ------------------------------------------------- the streaming engine

\* C14: add of Fill(n, b), or Advance(n) with b = 0, writes b to the sink one
\* byte at a time.  If no write is rejected the sink has received n bytes in n
\* writes and n is reported; if the j-th is rejected the add returns an I/O
\* error at once, after j writes, and the j-1 bytes accepted stay in the sink.
C14_FillStreamsByteByByte ==
    [][ (target = "io" /\ call'.fn = "add" /\ call'.op.op \in {"Advance", "Fill"}) =>
            LET n == call'.op.len
                b == IF call'.op.op = "Fill" THEN call'.op.chr ELSE 0
                r == writer.room
            IN  IF n <= r
                THEN /\ ret' = Ok(0)
                     /\ write_to_io(call'.op, [writer EXCEPT !.writes = 0]).ret = Ok(n)
                     /\ writer'.data = writer.data \o Repeat(n, b)
                     /\ writer'.writes = n
                ELSE /\ io(ret') /\ ret'.io = writer.fail
                     /\ writer'.data = writer.data \o Repeat(r, b)
                     /\ writer'.writes = r + 1 ]_vars

\* C14's case: the second of three writes of a Fill was rejected by a sink that
\* already held bytes: the add failed after two writes, one byte was added.
C14_Witness ==
    /\ target = "io" /\ call.fn = "add" /\ call.op.op = "Fill" /\ call.op.len = 3
    /\ io(ret) /\ writer.writes = 2 /\ writer.room = 0
    /\ Len(writer.data) > 1
    /\ writer.data[Len(writer.data)] = call.op.chr
    /\ writer.data[Len(writer.data) - 1] # call.op.chr

====
